---- MODULE Spec2Model ----
(***************************************************************************)
(* Model of dashboard/streamlit_app.py: one run of the Streamlit script.   *)
(* The script loads six CSV tables (load_data), stops if loading raised,   *)
(* and otherwise computes the analysis chosen in the sidebar: product      *)
(* category performance, delivery logistics or customer RFM.               *)
(*                                                                         *)
(* Encoding.  A dataframe is a sequence of rows, a row is a record.  A     *)
(* nullable cell is a sequence of length at most one: <<>> is NaN/NaT,     *)
(* <<v>> is the value v.  Join keys of the left-most table are plain       *)
(* strings.  A timestamp in a CSV file is the text <<day, part>>; a parsed *)
(* timestamp is a number of Day-th parts of a day.  A mean is kept as the  *)
(* fraction num/den that pandas computes; den = 0 is NaN.                  *)
(*                                                                         *)
(* Input domain.  The key columns of the dimension tables are unique       *)
(* (orders.order_id, products.product_id, sellers.seller_id,               *)
(* customers.customer_id), as in the dataset the script is written for;    *)
(* order items and reviews may repeat an order_id any number of times.     *)
(***************************************************************************)
EXTENDS Integers, Sequences, FiniteSets, TLC

VARIABLES files, analysis_type, pc,
          customers_df, orders_df, order_reviews_df,
          sellers_df, order_items_df, products_df,
          category_performance, state_delivery_performance, rfm_table

vars == <<files, analysis_type, pc,
          customers_df, orders_df, order_reviews_df,
          sellers_df, order_items_df, products_df,
          category_performance, state_delivery_performance, rfm_table>>

frames == <<customers_df, orders_df, order_reviews_df,
            sellers_df, order_items_df, products_df>>

outputs == <<category_performance, state_delivery_performance, rfm_table>>

----------------------------------------------------------------------------
(* Bounds of the explored inputs.                                          *)

MaxCategoryItems == 2
MaxReviews == 2
MaxDeliveryItems == 3
MaxRfmItems == 3
MaxPrice == 2
MaxDay == 1

(* Parts of a day in which timestamps are measured: timedelta(days=1).     *)
Day == 2

----------------------------------------------------------------------------
(* Cells, columns and the pandas primitives the script uses.               *)

NaN == <<>>

IsNull(cell) == cell = NaN

RECURSIVE SeqSum(_)
SeqSum(s) == IF s = <<>> THEN 0 ELSE Head(s) + SeqSum(Tail(s))

RECURSIVE Flatten(_)
Flatten(ss) == IF ss = <<>> THEN <<>> ELSE Head(ss) \o Flatten(Tail(ss))

Column(rows, col) == [i \in 1..Len(rows) |-> rows[i][col]]

NotNull(cells) == SelectSeq(cells, LAMBDA c : ~IsNull(c))

Values(cells) == [i \in 1..Len(cells) |-> cells[i][1]]

(* pd.to_datetime on one CSV cell: empty text is NaT.                      *)
to_datetime(text) ==
    IF text = <<>> THEN NaN ELSE << text[1] * Day + text[2] >>

(* left.merge(right, on=key, how=how).  Every left row is paired with every *)
(* right row of the same key, in left order; how = "left" keeps an         *)
(* unmatched left row with the right columns null, "inner" drops it.       *)
Merge(left, right, key, how, nulls) ==
    Flatten([i \in 1..Len(left) |->
        LET m == SelectSeq(right, LAMBDA r : r[key] = left[i][key])
        IN  IF m = <<>>
            THEN IF how = "left" THEN << left[i] @@ nulls >> ELSE <<>>
            ELSE [j \in 1..Len(m) |-> left[i] @@ m[j]]])

(* groupby(col): the groups are the non-null values of the column.         *)
GroupKeys(rows, col) ==
    { rows[i][col][1] : i \in { j \in 1..Len(rows) : ~IsNull(rows[j][col]) } }

Group(rows, col, k) == SelectSeq(rows, LAMBDA r : r[col] = <<k>>)

(* The aggregations 'sum', 'mean', 'count', 'nunique' and max().           *)
AggSum(rows, col) == SeqSum(Column(rows, col))

(* Mutation: nulls filled with 0 before the mean.                          *)
AggMean_fillna0(rows, col) ==
    [num |-> SeqSum(Values(NotNull(Column(rows, col)))), den |-> Len(rows)]

AggMean(rows, col) ==
    LET v == Values(NotNull(Column(rows, col)))
    IN  [num |-> SeqSum(v), den |-> Len(v)]

(* Mutation: counts distinct values instead of rows.                       *)
AggCount_nunique(rows, col) ==
    Cardinality({ rows[i][col] : i \in 1..Len(rows) })

(* 'count' of order_id, the key of the first merge and so never null.      *)
AggCount(rows, col) == Len(rows)

(* Mutation: counts rows instead of distinct values.                       *)
AggNunique_count(rows, col) == Len(rows)

AggNunique(rows, col) == Cardinality({ rows[i][col] : i \in 1..Len(rows) })

ColMax(rows, col) ==
    LET v == { c[1] : c \in { rows[i][col] : i \in 1..Len(rows) } \ {NaN} }
    IN  IF v = {} THEN NaN ELSE << CHOOSE x \in v : \A y \in v : y <= x >>

Project(rows, cols) == [i \in 1..Len(rows) |-> [c \in cols |-> rows[i][c]]]

----------------------------------------------------------------------------
(* load_data and the try/except around it.                                 *)

FileNames == {"customers", "orders", "order_reviews",
              "sellers", "order_items", "products"}

Analyses == {"Product Category Performance", "Delivery Logistics",
             "Customer RFM Analysis"}

NoFrame == [has_keys |-> FALSE, rows |-> <<>>]

(* pd.read_csv keeps whatever columns and rows the file has.               *)
read_csv(f) == [has_keys |-> f.has_keys, rows |-> f.rows]

(* The date columns of orders_df are parsed; nothing is dropped or filled. *)
ConvertDates(frame) ==
    [frame EXCEPT !.rows = [i \in 1..Len(frame.rows) |->
        [frame.rows[i] EXCEPT
            !.order_purchase_timestamp = to_datetime(@),
            !.order_delivered_customer_date = to_datetime(@)]]]

Readable == \A n \in FileNames : files[n].readable

LoadData ==
    /\ pc = "load"
    /\ Readable
    /\ customers_df' = read_csv(files["customers"])
    /\ orders_df' = ConvertDates(read_csv(files["orders"]))
    /\ order_reviews_df' = read_csv(files["order_reviews"])
    /\ sellers_df' = read_csv(files["sellers"])
    /\ order_items_df' = read_csv(files["order_items"])
    /\ products_df' = read_csv(files["products"])
    /\ pc' = "loaded"
    /\ UNCHANGED <<files, analysis_type, outputs>>

(* read_csv raised: st.error, st.stop.                                     *)
LoadDataError ==
    /\ pc = "load"
    /\ ~Readable
    /\ pc' = "stopped"
    /\ UNCHANGED <<files, analysis_type, frames, outputs>>

----------------------------------------------------------------------------
(* The three analyses.                                                     *)

UsedFrames(analysis) ==
    CASE analysis = "Product Category Performance" ->
            <<order_items_df, orders_df, order_reviews_df, products_df>>
      [] analysis = "Delivery Logistics" ->
            <<order_items_df, orders_df, sellers_df>>
      [] analysis = "Customer RFM Analysis" ->
            <<orders_df, order_items_df, customers_df>>

ColumnsPresent(analysis) ==
    LET u == UsedFrames(analysis) IN \A i \in 1..Len(u) : u[i].has_keys

(* Mutation: reviews joined with an inner join.                            *)
merged_df_inner_reviews ==
    LET m1 == Merge(order_items_df.rows, orders_df.rows, "order_id", "inner",
                    <<>>)
        m2 == Merge(m1, Project(order_reviews_df.rows,
                                {"order_id", "review_score"}),
                    "order_id", "inner", <<>>)
    IN  Merge(m2, Project(products_df.rows,
                          {"product_id", "product_category_name"}),
              "product_id", "left", [product_category_name |-> NaN])

merged_df ==
    LET m1 == Merge(order_items_df.rows, orders_df.rows, "order_id", "inner",
                    <<>>)
        m2 == Merge(m1, Project(order_reviews_df.rows,
                                {"order_id", "review_score"}),
                    "order_id", "left", [review_score |-> NaN])
    IN  Merge(m2, Project(products_df.rows,
                          {"product_id", "product_category_name"}),
              "product_id", "left", [product_category_name |-> NaN])

CategoryAgg(view) ==
    { [product_category_name |-> k,
       total_sales |-> AggSum(Group(view, "product_category_name", k), "price"),
       average_rating |->
           AggMean(Group(view, "product_category_name", k), "review_score"),
       order_count |->
           AggCount(Group(view, "product_category_name", k), "order_id")] :
      k \in GroupKeys(view, "product_category_name") }

CategoryPerformance ==
    /\ pc = "loaded"
    /\ analysis_type = "Product Category Performance"
    /\ ColumnsPresent(analysis_type)
    /\ category_performance' = CategoryAgg(merged_df)
    /\ pc' = "done"
    /\ UNCHANGED <<files, analysis_type, frames,
                   state_delivery_performance, rfm_table>>

(* (delivered - purchase).dt.days: whole days, rounded down; NaT gives NaN. *)
delivery_time_days(row) ==
    IF IsNull(row.order_delivered_customer_date)
         \/ IsNull(row.order_purchase_timestamp)
    THEN NaN
    ELSE << (row.order_delivered_customer_date[1]
                - row.order_purchase_timestamp[1]) \div Day >>

logistics_df ==
    LET m1 == Merge(order_items_df.rows,
                    Project(orders_df.rows,
                            {"order_id", "order_delivered_customer_date",
                             "order_purchase_timestamp"}),
                    "order_id", "inner", <<>>)
        m2 == Merge(m1, Project(sellers_df.rows, {"seller_id", "seller_state"}),
                    "seller_id", "left", [seller_state |-> NaN])
    IN  [i \in 1..Len(m2) |->
            m2[i] @@ [delivery_time_days |-> delivery_time_days(m2[i])]]

(* Mutation: total_orders counts the rows that have a delivery time.       *)
DeliveryAgg_count_delivered(view) ==
    { [seller_state |-> k,
       average_delivery_time |->
           AggMean(Group(view, "seller_state", k), "delivery_time_days"),
       total_orders |->
           Len(NotNull(Column(Group(view, "seller_state", k),
                              "delivery_time_days")))] :
      k \in GroupKeys(view, "seller_state") }

DeliveryAgg(view) ==
    { [seller_state |-> k,
       average_delivery_time |->
           AggMean(Group(view, "seller_state", k), "delivery_time_days"),
       total_orders |-> AggCount(Group(view, "seller_state", k), "order_id")] :
      k \in GroupKeys(view, "seller_state") }

DeliveryLogistics ==
    /\ pc = "loaded"
    /\ analysis_type = "Delivery Logistics"
    /\ ColumnsPresent(analysis_type)
    /\ state_delivery_performance' = DeliveryAgg(logistics_df)
    /\ pc' = "done"
    /\ UNCHANGED <<files, analysis_type, frames, category_performance, rfm_table>>

(* Mutation: one row kept per order_id before the aggregation.             *)
rfm_df_one_row_per_order ==
    LET v == Merge(Merge(orders_df.rows, order_items_df.rows, "order_id",
                         "inner", <<>>),
                   customers_df.rows, "customer_id", "inner", <<>>)
    IN  Flatten([i \in 1..Len(v) |->
            IF \E j \in 1..(i - 1) : v[j].order_id = v[i].order_id
            THEN <<>> ELSE << v[i] >>])

rfm_df ==
    Merge(Merge(orders_df.rows, order_items_df.rows, "order_id", "inner",
                <<>>),
          customers_df.rows, "customer_id", "inner", <<>>)

(* Mutation: the day is subtracted instead of added.                       *)
reference_date_minus(view) ==
    LET m == ColMax(view, "order_purchase_timestamp")
    IN  IF IsNull(m) THEN NaN ELSE << m[1] - Day >>

(* max(order_purchase_timestamp) + timedelta(days=1); NaT stays NaT.       *)
reference_date(view) ==
    LET m == ColMax(view, "order_purchase_timestamp")
    IN  IF IsNull(m) THEN NaN ELSE << m[1] + Day >>

(* lambda x: (reference_date - x.max()).days                               *)
Recency(reference, rows) ==
    LET m == ColMax(rows, "order_purchase_timestamp")
    IN  IF IsNull(reference) \/ IsNull(m) THEN NaN
        ELSE << (reference[1] - m[1]) \div Day >>

RfmAgg(view) ==
    { [customer_unique_id |-> k,
       Recency |-> Recency(reference_date(view),
                           Group(view, "customer_unique_id", k)),
       Frequency |-> AggNunique(Group(view, "customer_unique_id", k),
                                "order_id"),
       Monetary |-> AggSum(Group(view, "customer_unique_id", k), "price")] :
      k \in GroupKeys(view, "customer_unique_id") }

RfmAnalysis ==
    /\ pc = "loaded"
    /\ analysis_type = "Customer RFM Analysis"
    /\ ColumnsPresent(analysis_type)
    /\ rfm_table' = RfmAgg(rfm_df)
    /\ pc' = "done"
    /\ UNCHANGED <<files, analysis_type, frames,
                   category_performance, state_delivery_performance>>

(* A merge or column selection on an absent column raises KeyError; the    *)
(* exception is outside the try block and ends the run.                    *)
AnalysisKeyError ==
    /\ pc = "loaded"
    /\ ~ColumnsPresent(analysis_type)
    /\ pc' = "error"
    /\ UNCHANGED <<files, analysis_type, frames, outputs>>

----------------------------------------------------------------------------
(* The CSV files a run may start from.                                     *)

OrderIds == {"o1", "o2"}
ProductIds == {"p1", "p2"}
SellerIds == {"s1", "s2", "s9"}
Scores == {1, 5}
Prices == 1..MaxPrice
Times == { <<d, h>> : d \in 0..MaxDay, h \in 0..(Day - 1) }

SeqsUpTo(S, n) == UNION { [1..k -> S] : k \in 0..n }

RECURSIVE SetToSeq(_)
SetToSeq(S) ==
    IF S = {} THEN <<>>
    ELSE LET x == CHOOSE y \in S : TRUE IN <<x>> \o SetToSeq(S \ {x})

(* The tables of at most n rows drawn from the rows e, one per multiset of *)
(* rows: the aggregations are sums, counts, means, distinct counts and     *)
(* maxima over groups of rows, none of which depends on the row order.     *)
TablesUpTo(e, n) ==
    { [i \in 1..Len(s) |-> e[s[i]]] :
      s \in { t \in SeqsUpTo(1..Len(e), n) :
                \A i \in 1..(Len(t) - 1) : t[i] <= t[i + 1] } }

File(rows) == [readable |-> TRUE, has_keys |-> TRUE, rows |-> rows]

OrderRow(o, c, purchase, delivered) ==
    [order_id |-> o, customer_id |-> c,
     order_purchase_timestamp |-> purchase,
     order_delivered_customer_date |-> delivered]

ItemRow(o, p, s, price) ==
    [order_id |-> o, product_id |-> p, seller_id |-> s, price |-> price]

ProductRow(p, category, dims) ==
    [product_id |-> p, product_category_name |-> category,
     product_weight_g |-> dims[1], product_length_cm |-> dims[2],
     product_height_cm |-> dims[3], product_width_cm |-> dims[4]]

FullDims == << <<1>>, <<1>>, <<1>>, <<1>> >>

DefaultFiles ==
    [customers |-> File(<< [customer_id |-> "c1",
                            customer_unique_id |-> <<"u1">>] >>),
     orders |-> File(<< OrderRow("o1", "c1", <<0, 0>>, <<0, 1>>) >>),
     order_reviews |-> File(<< [order_id |-> "o1", review_score |-> <<5>>] >>),
     sellers |-> File(<< [seller_id |-> "s1", seller_state |-> <<"SP">>] >>),
     order_items |-> File(<< ItemRow("o1", "p1", "s1", 1) >>),
     products |-> File(<< ProductRow("p1", <<"toys">>, FullDims) >>)]

(* At most one file is unreadable and at most one lacks a key column.      *)
WithFaults(F) ==
    { [n \in FileNames |->
          [f[n] EXCEPT !.readable = (n # u), !.has_keys = (n # k)]] :
      f \in F, u \in FileNames \cup {"none"}, k \in FileNames \cup {"none"} }

(* Products with missing categories and dimensions.                        *)
InputsLoad ==
    WithFaults(
      { [DefaultFiles EXCEPT
            !.products = File(<< ProductRow("p1", c, d),
                                 ProductRow("p2", <<"books">>, FullDims) >>)] :
        c \in {NaN, <<"toys">>}, d \in [1..4 -> {NaN, <<1>>}] })

InputsFaults == WithFaults({DefaultFiles})

(* Category view: items of two orders and two products, reviews that may   *)
(* repeat an order, products that may be absent or lack a category.        *)
CategoryOrders ==
    { << OrderRow("o1", "c1", <<0, 0>>, <<0, 1>>) >>,
      << OrderRow("o1", "c1", <<0, 0>>, <<0, 1>>),
         OrderRow("o2", "c1", <<0, 1>>, NaN) >> }

CategoryProducts ==
    { << ProductRow("p1", c, FullDims) >> \o t :
      c \in {NaN, <<"toys">>},
      t \in { <<>> } \cup { << ProductRow("p2", c2, FullDims) >> :
                             c2 \in { <<"toys">>, <<"books">> } } }

CategoryItemRows ==
    SetToSeq({ ItemRow(o, p, "s1", x) :
                 o \in OrderIds, p \in ProductIds, x \in Prices })

CategoryItems == TablesUpTo(CategoryItemRows, MaxCategoryItems)

CategoryReviewRows ==
    SetToSeq({ [order_id |-> o, review_score |-> <<s>>] :
                 o \in OrderIds, s \in Scores })

CategoryReviews == TablesUpTo(CategoryReviewRows, MaxReviews)

CategoryFiles(i, o, r, p) ==
    [DefaultFiles EXCEPT
        !.order_items = File(i), !.orders = File(o),
        !.order_reviews = File(r), !.products = File(p)]

(* Delivery view: items of sellers in two states or of an unknown seller,  *)
(* orders delivered at any time or not yet delivered.                      *)
DeliveryOrders ==
    { << OrderRow("o1", "c1", <<0, 1>>, d1) >> \o t :
      d1 \in Times \cup {NaN},
      t \in { <<>> } \cup { << OrderRow("o2", "c1", <<0, 0>>, d2) >> :
                             d2 \in Times \cup {NaN} } }

DeliverySellers ==
    { << [seller_id |-> "s1", seller_state |-> <<"SP">>],
         [seller_id |-> "s2", seller_state |-> <<st>>] >> :
      st \in {"SP", "RJ"} }

DeliveryItemRows ==
    SetToSeq({ ItemRow(o, "p1", s, 1) : o \in OrderIds, s \in SellerIds })

DeliveryItems == TablesUpTo(DeliveryItemRows, MaxDeliveryItems)

DeliveryFiles(i, o, s) ==
    [DefaultFiles EXCEPT
        !.order_items = File(i), !.orders = File(o), !.sellers = File(s)]

(* RFM view: orders of one or two customer_ids, which may belong to the    *)
(* same customer_unique_id or to no customer at all.                       *)
RfmOrders ==
    { << OrderRow("o1", "c1", t1, NaN) >> \o t :
      t1 \in Times,
      t \in { <<>> } \cup { << OrderRow("o2", c, t2, NaN) >> :
                             c \in {"c1", "c2"}, t2 \in Times } }

RfmCustomers ==
    { << [customer_id |-> "c1", customer_unique_id |-> <<"u1">>] >> \o t :
      t \in { <<>> } \cup { << [customer_id |-> "c2",
                                customer_unique_id |-> <<u>>] >> :
                             u \in {"u1", "u2"} } }

RfmItemRows ==
    SetToSeq({ ItemRow(o, "p1", "s1", x) : o \in OrderIds, x \in Prices })

RfmItems == TablesUpTo(RfmItemRows, MaxRfmItems)

RfmFiles(i, o, c) ==
    [DefaultFiles EXCEPT
        !.order_items = File(i), !.orders = File(o), !.customers = File(c)]

----------------------------------------------------------------------------
(* Specifications.                                                         *)

Start ==
    /\ pc = "load"
    /\ customers_df = NoFrame
    /\ orders_df = NoFrame
    /\ order_reviews_df = NoFrame
    /\ sellers_df = NoFrame
    /\ order_items_df = NoFrame
    /\ products_df = NoFrame
    /\ category_performance = {}
    /\ state_delivery_performance = {}
    /\ rfm_table = {}

Init ==
    /\ files \in InputsLoad
    /\ analysis_type \in Analyses
    /\ Start

InitCategory ==
    /\ \/ /\ \E i \in CategoryItems, o \in CategoryOrders,
                r \in CategoryReviews, p \in CategoryProducts :
                 files = CategoryFiles(i, o, r, p)
          /\ analysis_type = "Product Category Performance"
       \/ files \in InputsFaults /\ analysis_type \in Analyses
    /\ Start

InitDelivery ==
    /\ \/ /\ \E i \in DeliveryItems, o \in DeliveryOrders,
                s \in DeliverySellers :
                 files = DeliveryFiles(i, o, s)
          /\ analysis_type = "Delivery Logistics"
       \/ files \in InputsFaults /\ analysis_type \in Analyses
    /\ Start

InitRfm ==
    /\ \/ /\ \E i \in RfmItems, o \in RfmOrders, c \in RfmCustomers :
                 files = RfmFiles(i, o, c)
          /\ analysis_type = "Customer RFM Analysis"
       \/ files \in InputsFaults /\ analysis_type \in Analyses
    /\ Start

Next ==
    \/ LoadData
    \/ LoadDataError
    \/ CategoryPerformance
    \/ DeliveryLogistics
    \/ RfmAnalysis
    \/ AnalysisKeyError

Spec == Init /\ [][Next]_vars

SpecCategory == InitCategory /\ [][Next]_vars

SpecDelivery == InitDelivery /\ [][Next]_vars

SpecRfm == InitRfm /\ [][Next]_vars

----------------------------------------------------------------------------
(* The input tables, as the files hold them, in which the properties below *)
(* are stated.                                                             *)

Customers == files["customers"].rows
Orders == files["orders"].rows
Reviews == files["order_reviews"].rows
Sellers == files["sellers"].rows
Items == files["order_items"].rows
Products == files["products"].rows

ItemIdx == 1..Len(Items)

RECURSIVE SetSum(_, _)
SetSum(S, f) ==
    IF S = {} THEN 0
    ELSE LET x == CHOOSE y \in S : TRUE IN f[x] + SetSum(S \ {x}, f)

Instant(text) == text[1] * Day + text[2]

Price == [i \in ItemIdx |-> Items[i].price]

(* The item's order is in the orders table.                                *)
Matched(i) == \E o \in 1..Len(Orders) : Orders[o].order_id = Items[i].order_id

OrderOf(i) ==
    Orders[CHOOSE o \in 1..Len(Orders) : Orders[o].order_id = Items[i].order_id]

Done(analysis) == pc = "done" /\ analysis_type = analysis

(* ---- RFM ---- *)

(* The orders of a customer_unique_id, through customer_id.                *)
OrdersOf(u) ==
    { o \in 1..Len(Orders) :
        \E c \in 1..Len(Customers) :
            /\ Customers[c].customer_id = Orders[o].customer_id
            /\ Customers[c].customer_unique_id = <<u>> }

HasItem(o) == \E i \in ItemIdx : Items[i].order_id = Orders[o].order_id

ItemsOf(u) ==
    { i \in ItemIdx : \E o \in OrdersOf(u) : Items[i].order_id = Orders[o].order_id }

SetMax(S) == CHOOSE x \in S : \A y \in S : y <= x

(* C2: the Frequency of every customer_unique_id of the RFM table is the   *)
(* number of distinct order_ids among that customer's orders that have at  *)
(* least one order item; an order with several items counts once.          *)
C2_FrequencyDistinctOrders ==
    Done("Customer RFM Analysis") =>
        \A row \in rfm_table :
            row.Frequency =
                Cardinality({ Orders[o].order_id :
                    o \in { x \in OrdersOf(row.customer_unique_id) : HasItem(x) } })

C2_Witness ==
    /\ Done("Customer RFM Analysis")
    /\ \E row \in rfm_table :
        /\ row.Frequency = 1
        /\ Cardinality(ItemsOf(row.customer_unique_id)) >= 2

(* C3: the Monetary of every customer_unique_id of the RFM table is the    *)
(* sum of price over all order-item rows of all the customer's orders,     *)
(* each item once.                                                         *)
C3_MonetarySumOfItems ==
    Done("Customer RFM Analysis") =>
        \A row \in rfm_table :
            row.Monetary = SetSum(ItemsOf(row.customer_unique_id), Price)

(* Three items in two orders of one customer: Frequency 2, Monetary the    *)
(* sum of the three prices.                                                *)
C3_Witness ==
    /\ Done("Customer RFM Analysis")
    /\ \E row \in rfm_table :
        /\ row.Frequency = 2
        /\ Cardinality(ItemsOf(row.customer_unique_id)) = 3
        /\ row.Monetary = 5
        /\ \E i, j \in ItemsOf(row.customer_unique_id) :
               i # j /\ Items[i].price = Items[j].price

(* The purchase instants of the rows of the RFM view.                      *)
ViewInstants ==
    { Instant(Orders[o].order_purchase_timestamp) :
        o \in { x \in 1..Len(Orders) :
                  HasItem(x) /\ \E c \in 1..Len(Customers) :
                      Customers[c].customer_id = Orders[x].customer_id } }

LastPurchase(u) ==
    SetMax({ Instant(Orders[o].order_purchase_timestamp) :
               o \in { x \in OrdersOf(u) : HasItem(x) } })

(* C4: every Recency of the RFM table is >= 0 and is the whole days from   *)
(* the customer's last purchase to the reference instant, the latest       *)
(* purchase of the RFM view plus one day.                                  *)
C4_RecencyNonNegative ==
    Done("Customer RFM Analysis") =>
        \A row \in rfm_table :
            /\ row.Recency # NaN
            /\ row.Recency[1] >= 0
            /\ row.Recency[1] =
                 (SetMax(ViewInstants) + Day
                    - LastPurchase(row.customer_unique_id)) \div Day

(* Two customers, one of whom bought last earlier than the other.          *)
C4_Witness ==
    /\ Done("Customer RFM Analysis")
    /\ \E r1, r2 \in rfm_table : r1.Recency[1] = 1 /\ r2.Recency[1] > 1

(* ---- Category performance ---- *)

ReviewsOf(i) == { r \in 1..Len(Reviews) : Reviews[r].order_id = Items[i].order_id }

NumReviews == [i \in ItemIdx |-> Cardinality(ReviewsOf(i))]

(* The category cell the item's product brings, NaN without a product.     *)
CategoryOf(i) ==
    IF \E p \in 1..Len(Products) : Products[p].product_id = Items[i].product_id
    THEN Products[CHOOSE p \in 1..Len(Products) :
                    Products[p].product_id = Items[i].product_id].product_category_name
    ELSE NaN

ItemsIn(c) == { i \in ItemIdx : Matched(i) /\ CategoryOf(i) = <<c>> }

Unreviewed(c) == { i \in ItemsIn(c) : NumReviews[i] = 0 }

Reviewed(c) == { i \in ItemsIn(c) : NumReviews[i] > 0 }

ScoreSum == [i \in ItemIdx |->
                SetSum(ReviewsOf(i), [r \in ReviewsOf(i) |-> Reviews[r].review_score[1]])]

(* C5: an item whose order has no review adds its price to total_sales and *)
(* one to order_count of its category, and is left out of average_rating   *)
(* only, which is the mean of the scores of the rows that have one.        *)
C5_UnreviewedItemsCounted ==
    Done("Product Category Performance") =>
        /\ \A row \in category_performance :
            LET c == row.product_category_name IN
            /\ row.total_sales =
                 SetSum(Unreviewed(c), Price)
                   + SetSum(Reviewed(c), [i \in ItemIdx |-> Price[i] * NumReviews[i]])
            /\ row.order_count =
                 Cardinality(Unreviewed(c)) + SetSum(Reviewed(c), NumReviews)
            /\ row.average_rating =
                 [num |-> SetSum(Reviewed(c), ScoreSum),
                  den |-> SetSum(Reviewed(c), NumReviews)]
        /\ \A i \in ItemIdx :
              Matched(i) /\ CategoryOf(i) # NaN =>
                  \E row \in category_performance :
                      <<row.product_category_name>> = CategoryOf(i)

C5_Witness ==
    /\ Done("Product Category Performance")
    /\ \E row \in category_performance :
        /\ Unreviewed(row.product_category_name) # {}
        /\ Reviewed(row.product_category_name) # {}

Fanout == [i \in ItemIdx |-> IF NumReviews[i] = 0 THEN 1 ELSE NumReviews[i]]

OrderCount == [row \in category_performance |-> row.order_count]

(* C6: the order_counts of all output categories add up to the number of   *)
(* rows of the joined view whose product has a category; rows of a missing *)
(* product or of a product without category are in no output category.     *)
C6_OrderCountsCoverCategorised ==
    Done("Product Category Performance") =>
        /\ SetSum(category_performance, OrderCount) =
             SetSum({ i \in ItemIdx : Matched(i) /\ CategoryOf(i) # NaN }, Fanout)
        /\ \A row \in category_performance :
              \E i \in ItemIdx : CategoryOf(i) = <<row.product_category_name>>

C6_Witness ==
    /\ Done("Product Category Performance")
    /\ category_performance # {}
    /\ \E i \in ItemIdx : Matched(i) /\ CategoryOf(i) = NaN

(* C10: every order item adds its price to the total_sales of its category *)
(* exactly once, and one to order_count, however many reviews its order    *)
(* has.                                                                    *)
C10_ItemCountedOnce ==
    Done("Product Category Performance") =>
        \A row \in category_performance :
            /\ row.total_sales = SetSum(ItemsIn(row.product_category_name), Price)
            /\ row.order_count = Cardinality(ItemsIn(row.product_category_name))

(* ---- Delivery logistics ---- *)

StateOf(i) ==
    IF \E s \in 1..Len(Sellers) : Sellers[s].seller_id = Items[i].seller_id
    THEN Sellers[CHOOSE s \in 1..Len(Sellers) :
                   Sellers[s].seller_id = Items[i].seller_id].seller_state
    ELSE NaN

ItemsInState(s) == { i \in ItemIdx : Matched(i) /\ StateOf(i) = <<s>> }

DeliveredIn(s) ==
    { i \in ItemsInState(s) : OrderOf(i).order_delivered_customer_date # <<>> }

WholeDays == [i \in ItemIdx |->
    IF Matched(i) /\ OrderOf(i).order_delivered_customer_date # <<>>
    THEN (Instant(OrderOf(i).order_delivered_customer_date)
            - Instant(OrderOf(i).order_purchase_timestamp)) \div Day
    ELSE 0]

(* C7: the average delivery time of every seller_state is the mean of the  *)
(* non-null delivery times of its rows; for a state none of whose rows has *)
(* a delivered date it is NaN, never zero.                                 *)
C7_AverageOverDelivered ==
    Done("Delivery Logistics") =>
        \A row \in state_delivery_performance :
            LET s == row.seller_state IN
            /\ row.average_delivery_time =
                 [num |-> SetSum(DeliveredIn(s), WholeDays),
                  den |-> Cardinality(DeliveredIn(s))]
            /\ DeliveredIn(s) = {} =>
                 /\ row.average_delivery_time.den = 0
                 /\ ~(row.average_delivery_time.den > 0
                        /\ row.average_delivery_time.num = 0)

C7_Witness ==
    /\ Done("Delivery Logistics")
    /\ \E row \in state_delivery_performance :
          DeliveredIn(row.seller_state) = {}
    /\ \E row \in state_delivery_performance :
          /\ Cardinality(DeliveredIn(row.seller_state)) = 1
          /\ ItemsInState(row.seller_state) # DeliveredIn(row.seller_state)

TotalOrders == [row \in state_delivery_performance |-> row.total_orders]

(* C8: total_orders of a seller_state is the number of order-item rows     *)
(* with a matching order whose seller is in that state, delivered or not;  *)
(* items of an unknown seller are in no state's row.                       *)
C8_TotalOrdersCountsItems ==
    Done("Delivery Logistics") =>
        /\ \A row \in state_delivery_performance :
              row.total_orders = Cardinality(ItemsInState(row.seller_state))
        /\ { row.seller_state : row \in state_delivery_performance } =
              { StateOf(i)[1] : i \in { j \in ItemIdx :
                                          Matched(j) /\ StateOf(j) # NaN } }
        /\ SetSum(state_delivery_performance, TotalOrders) =
              Cardinality({ i \in ItemIdx : Matched(i) /\ StateOf(i) # NaN })

C8_Witness ==
    /\ Done("Delivery Logistics")
    /\ \E row \in state_delivery_performance :
          /\ row.total_orders = 2
          /\ Cardinality(DeliveredIn(row.seller_state)) = 1
    /\ \E i \in ItemIdx : Matched(i) /\ StateOf(i) = NaN

(* ---- Loading ---- *)

Dimensions == {"product_weight_g", "product_length_cm",
               "product_height_cm", "product_width_cm"}

(* C1: after load_data every retained products row has a category and all *)
(* four dimensions.                                                        *)
C1_RetainedProductsComplete ==
    pc \in {"loaded", "done", "error"} =>
        \A p \in 1..Len(products_df.rows) :
            /\ products_df.rows[p].product_category_name # NaN
            /\ \A d \in Dimensions : products_df.rows[p][d] # NaN

BadInput == \E n \in FileNames : ~files[n].readable \/ ~files[n].has_keys

(* C9: with an unreadable file or an absent key column the run ends at the *)
(* load step, no aggregation computed.                                     *)
C9_BadInputStopsAtLoad ==
    BadInput /\ pc \in {"stopped", "done", "error"} =>
        /\ pc = "stopped"
        /\ category_performance = {}
        /\ state_delivery_performance = {}
        /\ rfm_table = {}

====
